---- MODULE Spec2Model ----
(***************************************************************************)
(* Model of the SQuAD experiment-2 data cleaner (exp2_data_clean.py) and   *)
(* of the split selection of the experiment-1 evaluation script            *)
(* (exp-1/exp1_test.py).                                                   *)
(*                                                                         *)
(* A Python str is a sequence of one-character strings; a Python list is a *)
(* sequence; a Python dict with fixed keys is a record.  Python indices    *)
(* are 0-based: s[a:b] is SubSeq(s, a+1, b) clipped to the string.         *)
(***************************************************************************)
EXTENDS Integers, Sequences, FiniteSets, TLC

VARIABLES
    \* exp2_transformer
    source,            \* the decoded in_file: [version, data]
    new_data,          \* the object that is saved: [experiment, version, data]
    topic_dict,        \* the topic record being built
    context_buffer,    \* running offset of the current paragraph
    ti,                \* position of the loop over source["data"] (1-based)
    pj,                \* position of the loop over topic["paragraphs"] (1-based)
    pc,                \* "topic" | "para" | "saved"
    out_file,          \* what save() wrote
    paragraph_offset,  \* history: context_buffer as read for each paragraph of the topic
    \* quick_clean applied once and twice to one string
    raw_str, once, twice, cpc,
    \* exp1_test.main
    flags, c, data_split, eval_file, record_file, raised, mpc

vars == <<source, new_data, topic_dict, context_buffer, ti, pj, pc, out_file,
          paragraph_offset, raw_str, once, twice, cpc,
          flags, c, data_split, eval_file, record_file, raised, mpc>>

exp2_vars == <<source, new_data, topic_dict, context_buffer, ti, pj, pc, out_file,
               paragraph_offset>>
clean_vars == <<raw_str, once, twice, cpc>>
main_vars == <<flags, c, data_split, eval_file, record_file, raised, mpc>>

-----------------------------------------------------------------------------
(* Bounds *)

\* longest string handed to quick_clean on its own
MaxLen == 4
\* most topics in a corpus
MaxTopics == 3
\* most paragraphs in a corpus, over all its topics
MaxParas == 3

-----------------------------------------------------------------------------
(* Strings *)

APOS == "'"
\* the backtick (U+0060), which a TLA+ string literal cannot hold
TICK == "BACKTICK"
QUOTE == "\""
SPACE == " "

\* the characters of the strings quick_clean is applied to on its own
Alphabet == {APOS, TICK, QUOTE, SPACE, "a"}

SeqsUpTo(S, n) == UNION {[1..k -> S] : k \in 0..n}

\* Python s[a:b] for 0 <= a, 0 <= b
Slice(s, a, b) == SubSeq(s, a + 1, IF b < Len(s) THEN b ELSE Len(s))

\* str.replace limited to the first occurrence (count = 1)
RECURSIVE replace_first(_, _, _)
replace_first(s, old, new) ==
    IF Len(s) < Len(old) THEN s
    ELSE IF SubSeq(s, 1, Len(old)) = old
         THEN new \o SubSeq(s, Len(old) + 1, Len(s))
         ELSE <<s[1]>> \o replace_first(Tail(s), old, new)

\* str.replace(old, new), old non-empty: every non-overlapping occurrence,
\* found left to right
RECURSIVE replace(_, _, _)
replace(s, old, new) ==
    IF Len(s) < Len(old) THEN s
    ELSE IF SubSeq(s, 1, Len(old)) = old
         THEN new \o replace(SubSeq(s, Len(old) + 1, Len(s)), old, new)
         ELSE <<s[1]>> \o replace(Tail(s), old, new)

\* quick_clean with the space of the replacement left out
quick_clean_short(s) ==
    replace(replace(s, <<APOS, APOS>>, <<QUOTE>>), <<TICK, TICK>>, <<QUOTE>>)

quick_clean(s) ==
    replace(replace(s, <<APOS, APOS>>, <<QUOTE, SPACE>>), <<TICK, TICK>>, <<QUOTE, SPACE>>)

\* "".join(list of strings)
RECURSIVE join(_)
join(strs) == IF strs = <<>> THEN <<>> ELSE Head(strs) \o join(Tail(strs))

-----------------------------------------------------------------------------
(* The parts that are not running in a specification stay as they are *)

CleanIdle == /\ raw_str = <<>> /\ once = <<>> /\ twice = <<>> /\ cpc = "idle"

Exp2Idle ==
    /\ source = [version |-> "v2.0", data |-> <<>>]
    /\ new_data = [experiment |-> 2, version |-> "v2.0", data |-> <<>>]
    /\ topic_dict = [title |-> 0, topic_context |-> <<>>, qas |-> <<>>]
    /\ context_buffer = 0
    /\ ti = 1 /\ pj = 1 /\ pc = "idle"
    /\ out_file = "absent"
    /\ paragraph_offset = <<>>

MainIdle ==
    /\ flags = <<>> /\ c = <<>> /\ data_split = "unbound"
    /\ eval_file = "unbound" /\ record_file = "unbound"
    /\ raised = "none" /\ mpc = "idle"

-----------------------------------------------------------------------------
(* quick_clean on its own: applied to a string, then to its own result *)

InitClean ==
    /\ raw_str \in SeqsUpTo(Alphabet, MaxLen)
    /\ once = <<>> /\ twice = <<>> /\ cpc = "start"
    /\ Exp2Idle /\ MainIdle

Clean ==
    /\ cpc = "start"
    /\ once' = quick_clean(raw_str)
    /\ cpc' = "once"
    /\ UNCHANGED <<raw_str, twice, exp2_vars, main_vars>>

Reclean ==
    /\ cpc = "once"
    /\ twice' = quick_clean(once)
    /\ cpc' = "twice"
    /\ UNCHANGED <<raw_str, once, exp2_vars, main_vars>>

NextClean == Clean \/ Reclean

SpecClean == InitClean /\ [][NextClean]_vars

-----------------------------------------------------------------------------
(* The input corpora *)

Answer(start, text) == [answer_start |-> start, text |-> text]
Question(question, is_impossible, answers) ==
    [question |-> question, is_impossible |-> is_impossible, answers |-> answers]

\* The paragraphs a corpus is built of, before the question ids are given:
\*   an empty context without questions;
\*   plain text with an answerable question and an impossible one;
\*   a doubled apostrophe ahead of the answers, a question holding doubled
\*     backticks, and an impossible question that holds a doubled apostrophe
\*     and still carries an answer;
\*   an answer whose text runs over a doubled backtick of the context;
\*   an answer that runs past the end of its context;
\*   text without questions.
ParagraphPool ==
    { [context |-> <<>>, qas |-> <<>>],
      [context |-> <<"a", "b">>,
       qas |-> << Question(<<"q">>, FALSE, <<Answer(1, <<"b">>)>>),
                  Question(<<"q">>, TRUE, <<>>) >>],
      [context |-> <<APOS, APOS, "a", "b">>,
       qas |-> << Question(<<"q", TICK, TICK>>, FALSE,
                           <<Answer(2, <<"a", "b">>), Answer(3, <<"b">>)>>),
                  Question(<<APOS, APOS, "q">>, TRUE, <<Answer(2, <<"a">>)>>) >>],
      [context |-> <<"a", TICK, TICK>>,
       qas |-> << Question(<<"q">>, FALSE, <<Answer(0, <<"a", TICK>>)>>) >>],
      [context |-> <<"a">>,
       qas |-> << Question(<<"q">>, FALSE, <<Answer(0, <<"a", "b">>)>>) >>],
      [context |-> <<"b">>, qas |-> <<>>] }

RECURSIVE Sum(_)
Sum(ns) == IF ns = <<>> THEN 0 ELSE Head(ns) + Sum(Tail(ns))

\* ids are unique across the corpus: topic, paragraph and position
QuestionId(t, p, q) == 100 * t + 10 * p + q

WithIds(para, t, p) ==
    [context |-> para.context,
     qas |-> [q \in 1..Len(para.qas) |->
                [id |-> QuestionId(t, p, q),
                 question |-> para.qas[q].question,
                 is_impossible |-> para.qas[q].is_impossible,
                 answers |-> para.qas[q].answers]]]

\* the corpus whose topic t holds the next sizes[t] paragraphs of flat
CorpusOf(flat, sizes) ==
    [t \in 1..Len(sizes) |->
        [title |-> t,
         paragraphs |-> [p \in 1..sizes[t] |->
            WithIds(flat[Sum(SubSeq(sizes, 1, t - 1)) + p], t, p)]]]

\* the ways to cut n paragraphs into at most MaxTopics topics, empty ones too
TopicSizes(n) == {sizes \in SeqsUpTo(0..MaxParas, MaxTopics) : Sum(sizes) = n}

-----------------------------------------------------------------------------
(* exp2_transformer *)

\* list.insert(0, x) in place of list.append(x)
prepend(list, x) == <<x>> \o list

\* list.append
append(list, x) == Append(list, x)

\* the body of the loop over a question's answers
remap_answer(answer, buffer) ==
    [answer_start |-> answer.answer_start + buffer, text |-> answer.text]

\* the loop body without its test of is_impossible
remap_all(qas, buffer) ==
    [id |-> qas.id,
     is_impossible |-> qas.is_impossible,
     question |-> quick_clean(qas.question),
     answers |-> [k \in 1..Len(qas.answers) |-> remap_answer(qas.answers[k], buffer)]]

\* the body of the loop over a paragraph's questions
remap_qas(qas, buffer) ==
    [id |-> qas.id,
     is_impossible |-> qas.is_impossible,
     question |-> quick_clean(qas.question),
     answers |-> IF ~qas.is_impossible
                 THEN [k \in 1..Len(qas.answers) |-> remap_answer(qas.answers[k], buffer)]
                 ELSE <<>>]

RECURSIVE extend_qas(_, _, _)
extend_qas(out, qass, buffer) ==
    IF qass = <<>> THEN out
    ELSE extend_qas(append(out, remap_qas(Head(qass), buffer)), Tail(qass), buffer)

\* context_buffer = len(para["context"]): assigned, not accumulated
advance_assign(buffer, para) == Len(para.context)

\* context_buffer += len(para["context"]) + 1: as if the contexts were joined by a separator
advance_sep(buffer, para) == buffer + Len(para.context) + 1

\* context_buffer += len(para["context"])
advance(buffer, para) == buffer + Len(para.context)

\* the topic record as the loop over the paragraphs starts
new_topic_dict(topic) ==
    [title |-> topic.title,
     topic_context |-> join([p \in 1..Len(topic.paragraphs) |->
                                quick_clean(topic.paragraphs[p].context)]),
     qas |-> <<>>]

Init ==
    /\ \E flat \in SeqsUpTo(ParagraphPool, MaxParas) : \E sizes \in TopicSizes(Len(flat)) :
        source = [version |-> "v2.0", data |-> CorpusOf(flat, sizes)]
    /\ new_data = [experiment |-> 2, version |-> source.version, data |-> <<>>]
    /\ topic_dict = [title |-> 0, topic_context |-> <<>>, qas |-> <<>>]
    /\ context_buffer = 0
    /\ ti = 1 /\ pj = 1 /\ pc = "topic"
    /\ out_file = "absent"
    /\ paragraph_offset = <<>>
    /\ CleanIdle /\ MainIdle

\* the topic loop with context_buffer = 0 moved out of it
BeginTopicCarry ==
    /\ pc = "topic"
    /\ ti <= Len(source.data)
    /\ topic_dict' = new_topic_dict(source.data[ti])
    /\ context_buffer' = context_buffer
    /\ paragraph_offset' = <<>>
    /\ pj' = 1
    /\ pc' = "para"
    /\ UNCHANGED <<source, new_data, ti, out_file, clean_vars, main_vars>>

BeginTopic ==
    /\ pc = "topic"
    /\ ti <= Len(source.data)
    /\ topic_dict' = new_topic_dict(source.data[ti])
    /\ context_buffer' = 0
    /\ paragraph_offset' = <<>>
    /\ pj' = 1
    /\ pc' = "para"
    /\ UNCHANGED <<source, new_data, ti, out_file, clean_vars, main_vars>>

Paragraph ==
    /\ pc = "para"
    /\ pj <= Len(source.data[ti].paragraphs)
    /\ LET para == source.data[ti].paragraphs[pj] IN
        /\ topic_dict' = [topic_dict EXCEPT
                            !.qas = extend_qas(@, para.qas, context_buffer)]
        /\ paragraph_offset' = Append(paragraph_offset, context_buffer)
        /\ context_buffer' = advance(context_buffer, para)
    /\ pj' = pj + 1
    /\ UNCHANGED <<source, new_data, ti, pc, out_file, clean_vars, main_vars>>

EndTopic ==
    /\ pc = "para"
    /\ pj > Len(source.data[ti].paragraphs)
    /\ new_data' = [new_data EXCEPT !.data = append(@, topic_dict)]
    /\ ti' = ti + 1
    /\ pc' = "topic"
    /\ UNCHANGED <<source, topic_dict, context_buffer, pj, out_file, paragraph_offset,
                   clean_vars, main_vars>>

Save ==
    /\ pc = "topic"
    /\ ti > Len(source.data)
    /\ out_file' = new_data
    /\ pc' = "saved"
    /\ UNCHANGED <<source, new_data, topic_dict, context_buffer, ti, pj, paragraph_offset,
                   clean_vars, main_vars>>

Next == BeginTopic \/ Paragraph \/ EndTopic \/ Save

Spec == Init /\ [][Next]_vars

-----------------------------------------------------------------------------
(* exp1_test.main: the selection of the split *)

Splits == {"train", "toy", "dev", "test"}
EvalFiles == {"data/test/test-eval.json", "data/toy/toy-eval.json"}
RecordFiles == {"data/train/train-exp1.npz", "data/toy/toy-exp1.npz"}

InitMain ==
    /\ flags \in {<<"exp1_test.py">>} \cup {<<"exp1_test.py", s>> : s \in Splits}
    /\ c \in [train_eval_file : EvalFiles, train_record_file_exp1 : RecordFiles,
              toy_eval_file : EvalFiles, toy_record_file_exp1 : RecordFiles]
    /\ data_split = "unbound"
    /\ eval_file = "unbound" /\ record_file = "unbound"
    /\ raised = "none" /\ mpc = "read_flag"
    /\ CleanIdle /\ Exp2Idle

\* data_split = flags[1]
ReadFlag ==
    /\ mpc = "read_flag"
    /\ IF Len(flags) < 2
       THEN /\ raised' = "IndexError"
            /\ mpc' = "raised"
            /\ UNCHANGED data_split
       ELSE /\ data_split' = flags[2]
            /\ mpc' = "if_train"
            /\ UNCHANGED raised
    /\ UNCHANGED <<flags, c, eval_file, record_file, clean_vars, exp2_vars>>

\* if data_split == "train": ...
IfTrain ==
    /\ mpc = "if_train"
    /\ IF data_split = "train"
       THEN /\ eval_file' = c.train_eval_file
            /\ record_file' = c.train_record_file_exp1
       ELSE UNCHANGED <<eval_file, record_file>>
    /\ mpc' = "if_toy"
    /\ UNCHANGED <<flags, c, data_split, raised, clean_vars, exp2_vars>>

\* if data_split == "toy": ... else: ... raise ValueError
IfToy ==
    /\ mpc = "if_toy"
    /\ IF data_split = "toy"
       THEN /\ eval_file' = c.toy_eval_file
            /\ record_file' = c.toy_record_file_exp1
            /\ mpc' = "continue"
            /\ UNCHANGED raised
       ELSE /\ eval_file' = "None"
            /\ record_file' = "None"
            /\ raised' = "ValueError"
            /\ mpc' = "raised"
    /\ UNCHANGED <<flags, c, data_split, clean_vars, exp2_vars>>

NextMain == ReadFlag \/ IfTrain \/ IfToy

SpecMain == InitMain /\ [][NextMain]_vars

-----------------------------------------------------------------------------
(* What the claims speak of *)

Saved == pc = "saved"
InTopics == source.data
OutTopics == out_file.data

\* the questions of a topic, paragraph after paragraph
InQuestions(topic) ==
    join([p \in 1..Len(topic.paragraphs) |-> topic.paragraphs[p].qas])

Ids(qass) == [q \in 1..Len(qass) |-> qass[q].id]

\* context[answer_start : answer_start + len(text)] == text
SpanHolds(context, answer) ==
    Slice(context, answer.answer_start, answer.answer_start + Len(answer.text)) = answer.text

\* answer_start + len(text) exceeds the length of the context
Overruns(context, answer) == answer.answer_start + Len(answer.text) > Len(context)

InputSpansHold ==
    \A t \in DOMAIN InTopics : \A p \in DOMAIN InTopics[t].paragraphs :
        LET para == InTopics[t].paragraphs[p] IN
        \A q \in DOMAIN para.qas : \A k \in DOMAIN para.qas[q].answers :
            SpanHolds(para.context, para.qas[q].answers[k])

TopicOverruns(topic) ==
    \E p \in DOMAIN topic.paragraphs :
        LET para == topic.paragraphs[p] IN
        \E q \in DOMAIN para.qas : \E k \in DOMAIN para.qas[q].answers :
            Overruns(para.context, para.qas[q].answers[k])

\* the length of the cleaned contexts of the paragraphs before paragraph i
CleanLenBefore(paras, i) ==
    Sum([p \in 1..(i - 1) |-> Len(quick_clean(paras[p].context))])

\* the record exp2_transformer emits for the corpus that holds this topic alone:
\* the body of the topic loop, run from the state the function starts in
RECURSIVE solo_paragraphs(_, _, _, _)
solo_paragraphs(record, paras, i, buffer) ==
    IF i > Len(paras) THEN record
    ELSE solo_paragraphs([record EXCEPT !.qas = extend_qas(@, paras[i].qas, buffer)],
                         paras, i + 1, advance(buffer, paras[i]))

SoloRecord(topic) == solo_paragraphs(new_topic_dict(topic), topic.paragraphs, 1, 0)

-----------------------------------------------------------------------------
(* The claims *)

\* C1 (as claimed): when every input answer is the text of its paragraph at
\* answer_start, every answer of every non-impossible question of the saved
\* output is the text of its topic_context at the remapped answer_start.
C1_SpanIntegrity ==
    (Saved /\ InputSpansHold) =>
        \A t \in DOMAIN OutTopics : \A q \in DOMAIN OutTopics[t].qas :
            LET qas == OutTopics[t].qas[q] IN
            ~qas.is_impossible =>
                \A k \in DOMAIN qas.answers :
                    SpanHolds(OutTopics[t].topic_context, qas.answers[k])

\* C2: quick_clean keeps the length of every string.
C2_LengthPreserved ==
    cpc \in {"once", "twice"} => Len(once) = Len(raw_str)

\* a run of three apostrophes, or of three backticks, was cleaned
C2_Witness ==
    /\ cpc = "once"
    /\ Len(raw_str) >= 3
    /\ raw_str[1] = raw_str[2] /\ raw_str[2] = raw_str[3]
    /\ raw_str[1] \in {APOS, TICK}
    /\ once # raw_str

\* C3 (as claimed): every impossible input question is in the saved output
\* with the same id, the same question and no answers.
C3_PassThroughIdentical ==
    Saved =>
        \A t \in DOMAIN InTopics : \A q \in DOMAIN InQuestions(InTopics[t]) :
            LET qas == InQuestions(InTopics[t])[q] IN
            qas.is_impossible =>
                \E r \in DOMAIN OutTopics : \E o \in DOMAIN OutTopics[r].qas :
                    /\ OutTopics[r].qas[o].id = qas.id
                    /\ OutTopics[r].qas[o].question = qas.question
                    /\ OutTopics[r].qas[o].answers = <<>>

\* C3 (amended): every impossible input question is in the saved output with
\* the same id, the question as quick_clean rewrites it, and no answers,
\* whatever its answers field held.
C3_PassThroughCleaned ==
    Saved =>
        \A t \in DOMAIN InTopics : \A q \in DOMAIN InQuestions(InTopics[t]) :
            LET qas == InQuestions(InTopics[t])[q] IN
            qas.is_impossible =>
                \E r \in DOMAIN OutTopics : \E o \in DOMAIN OutTopics[r].qas :
                    /\ OutTopics[r].qas[o].id = qas.id
                    /\ OutTopics[r].qas[o].question = quick_clean(qas.question)
                    /\ OutTopics[r].qas[o].answers = <<>>

\* an impossible question that carried an answer and a doubled quote was saved
C3_Witness ==
    /\ Saved
    /\ \E t \in DOMAIN InTopics : \E q \in DOMAIN InQuestions(InTopics[t]) :
        LET qas == InQuestions(InTopics[t])[q] IN
        /\ qas.is_impossible
        /\ qas.answers # <<>>
        /\ quick_clean(qas.question) # qas.question

\* C4: the saved topics are the input topics in their order, and the
\* questions of each are those of its paragraphs, in paragraph order and in
\* their order within the paragraph, none dropped and none repeated.
C4_OrderPreserved ==
    Saved =>
        /\ Len(OutTopics) = Len(InTopics)
        /\ \A t \in DOMAIN InTopics :
            /\ OutTopics[t].title = InTopics[t].title
            /\ Ids(OutTopics[t].qas) = Ids(InQuestions(InTopics[t]))

\* two topics were saved, one of them with questions from two paragraphs
C4_Witness ==
    /\ Saved
    /\ Len(OutTopics) = 2
    /\ \E t \in DOMAIN InTopics :
        /\ Len(InTopics[t].paragraphs) = 2
        /\ \A p \in 1..2 : Len(InTopics[t].paragraphs[p].qas) = 2
        /\ Len(OutTopics[t].qas) = 4

\* C5 (as claimed): a topic with an answer that runs past the end of its
\* paragraph is left out of the saved output, the other topics are in it, and
\* no answer of the output runs past the end of its topic_context.
C5_SpanValidation ==
    Saved =>
        /\ \A t \in DOMAIN InTopics :
            TopicOverruns(InTopics[t]) <=>
                ~ \E r \in DOMAIN OutTopics : OutTopics[r].title = InTopics[t].title
        /\ \A r \in DOMAIN OutTopics : \A o \in DOMAIN OutTopics[r].qas :
            \A k \in DOMAIN OutTopics[r].qas[o].answers :
                ~Overruns(OutTopics[r].topic_context, OutTopics[r].qas[o].answers[k])

\* C6: cleaning a cleaned string changes nothing.
C6_Idempotent ==
    cpc = "twice" => twice = once

\* doubled apostrophes between two backticks were cleaned, and cleaned again
C6_Witness ==
    /\ cpc = "twice"
    /\ raw_str = <<TICK, APOS, APOS, TICK>>
    /\ once = <<TICK, QUOTE, SPACE, TICK>>

\* C7: within a topic the value of context_buffer read for paragraph i is at
\* most the one read for a later paragraph j, and they are equal only when
\* the paragraphs i .. j-1 all have an empty context.
C7_OffsetMonotone ==
    pc = "para" =>
        \A i \in DOMAIN paragraph_offset : \A j \in DOMAIN paragraph_offset :
            i < j =>
                /\ paragraph_offset[i] <= paragraph_offset[j]
                /\ paragraph_offset[i] = paragraph_offset[j] =>
                    \A k \in i..(j - 1) : InTopics[ti].paragraphs[k].context = <<>>

\* three paragraphs were read, the second with an empty context
C7_Witness ==
    /\ pc = "para"
    /\ Len(paragraph_offset) = 3
    /\ paragraph_offset[1] < paragraph_offset[2]
    /\ paragraph_offset[2] = paragraph_offset[3]

\* C8: when paragraph i is remapped, context_buffer is the length of the
\* cleaned contexts before it, the place in topic_context where its cleaned
\* context starts, and each answer saved for it starts at the input
\* answer_start plus that value.
C8_BufferIsParagraphStart ==
    pc = "para" =>
        LET paras == InTopics[ti].paragraphs IN
        /\ pj <= Len(paras) =>
            /\ context_buffer = CleanLenBefore(paras, pj)
            /\ Slice(topic_dict.topic_context, context_buffer,
                     context_buffer + Len(quick_clean(paras[pj].context)))
                 = quick_clean(paras[pj].context)
        /\ \A i \in DOMAIN paragraph_offset :
            /\ paragraph_offset[i] = CleanLenBefore(paras, i)
            /\ \A q \in DOMAIN paras[i].qas :
                ~paras[i].qas[q].is_impossible =>
                    \E o \in DOMAIN topic_dict.qas :
                        /\ topic_dict.qas[o].id = paras[i].qas[q].id
                        /\ Len(topic_dict.qas[o].answers) = Len(paras[i].qas[q].answers)
                        /\ \A k \in DOMAIN paras[i].qas[q].answers :
                            /\ topic_dict.qas[o].answers[k].answer_start =
                                 paras[i].qas[q].answers[k].answer_start + paragraph_offset[i]
                            /\ topic_dict.qas[o].answers[k].text =
                                 paras[i].qas[q].answers[k].text

\* answers were remapped behind a paragraph with a doubled quote and a
\* paragraph with text and no questions
C8_Witness ==
    /\ pc = "para"
    /\ Len(paragraph_offset) = 3
    /\ LET paras == InTopics[ti].paragraphs IN
        /\ quick_clean(paras[1].context) # paras[1].context
        /\ paras[2].qas = <<>> /\ paras[2].context # <<>>
        /\ \E q \in DOMAIN paras[3].qas :
            /\ ~paras[3].qas[q].is_impossible
            /\ paras[3].qas[q].answers # <<>>
    /\ paragraph_offset[3] > paragraph_offset[2]

\* C9: the record saved for a topic is the record exp2_transformer emits for
\* the corpus that holds that topic alone, whatever its position and whatever
\* topics come before or after it.
C9_TopicIndependent ==
    Saved =>
        /\ Len(OutTopics) = Len(InTopics)
        /\ \A t \in DOMAIN InTopics : OutTopics[t] = SoloRecord(InTopics[t])

\* a topic with answers was saved between two topics with text
C9_Witness ==
    /\ Saved
    /\ Len(InTopics) = 3
    /\ \A t \in {1, 3} :
        /\ InTopics[t].paragraphs # <<>>
        /\ InTopics[t].paragraphs[1].context # <<>>
    /\ \E o \in DOMAIN OutTopics[2].qas : OutTopics[2].qas[o].answers # <<>>

\* C10 (as claimed): main raises ValueError at the selection of the split
\* exactly when flags[1] is neither "train" nor "toy"; with "train" it goes
\* on with the train files, with "toy" with the toy files.
C10_SplitSelection ==
    (mpc \in {"continue", "raised"} /\ Len(flags) >= 2) =>
        /\ raised = "ValueError" <=> flags[2] \notin {"train", "toy"}
        /\ flags[2] = "train" =>
            /\ mpc = "continue"
            /\ eval_file = c.train_eval_file
            /\ record_file = c.train_record_file_exp1
        /\ flags[2] = "toy" =>
            /\ mpc = "continue"
            /\ eval_file = c.toy_eval_file
            /\ record_file = c.toy_record_file_exp1

====
